---- MODULE Spec2Model ----
(***************************************************************************)
(* A model of d4-framefile's RandFile (src/d4-framefile/src/randfile.rs):  *)
(* the mutex-guarded IoWrapper (backing stream, current_token,             *)
(* token_stack), the handles bound to it by a token, the block operations  *)
(* and the lock / clone / drop protocol with its release callbacks, the    *)
(* mapped views of the mapping module, and the panics that poison the      *)
(* mutex or cut a run of callbacks short.                                  *)
(*                                                                         *)
(* Every operation runs its critical section under the mutex, so each is   *)
(* one atomic action.  The one exception is drop: the callbacks it         *)
(* collected are invoked after the mutex is released, one step each.       *)
(***************************************************************************)
EXTENDS Integers, Sequences, FiniteSets

\* ------------------------------------------------------------------ bounds
MaxHandles == 3     \* handle slots (live RandFile values at one time)
MaxLocks   == 2     \* lock calls in one run (also the deepest nesting)
NumThreads == 2     \* threads that may be inside drop at the same time
MaxStream  == 2     \* longest backing stream
MaxWrites  == 3     \* successful writes (append, reserve, update) in one run of IoSpec
LeaseWrites == 1    \* successful writes in one run of Spec and SeqSpec
MaxViews   == 1     \* mappings created in one run
MaxViewRefs == 2    \* clones of one mapping alive at one time

Handles  == 1..MaxHandles
Threads  == 1..NumThreads
Leases   == 1..MaxLocks
\* the bytes: zero, which reserve_block and the padding write, and a non-zero one
Bytes    == {0, 1}
MaxLen   == MaxStream     \* longest buffer of a call
Views    == 1..MaxViews
\* the backends: std::io::Cursor<Vec<u8>> (the tests) and std::fs::File
Backends == {"cursor", "file"}
Buffers  == UNION {[1..n -> Bytes] : n \in 0..MaxLen}
Addrs    == 0..MaxStream

VARIABLES
    handles,        \* slot -> [alive, token, lease]: the live RandFile values;
                    \* lease names the lock call the handle descends from
    current_token,  \* IoWrapper.current_token
    token_stack,    \* IoWrapper.token_stack: <<[count, cb]>>, generation g at g+1
    inner,          \* IoWrapper.inner: the bytes of the backing stream
    pending,        \* thread -> callbacks collected by its drop, not yet invoked
    invoked,        \* the callbacks invoked so far, in order
    parent,         \* lease -> callback of the entry it was pushed on
    nlocks,         \* number of lock calls made (the next callback is nlocks+1)
    blocks,         \* the blocks appended and reserved so far, in order
    updates,        \* number of successful update_block calls
    res,            \* what the last operation did and returned
    mutex,          \* the thread holding the Mutex between two steps, 0 for none
    poisoned,       \* the Mutex is poisoned: a holder panicked while holding it
    views,          \* view -> [mutable, refs, flushes, mapped, offset, len]:
                    \* the mappings created
    backend         \* the type T behind the handle: "cursor" or "file"

vars == <<handles, current_token, token_stack, inner, pending, invoked,
          parent, nlocks, blocks, updates, res, mutex, poisoned, views, backend>>

\* ----------------------------------------------------------------- helpers
Min(a, b) == IF a < b THEN a ELSE b
Max(a, b) == IF a > b THEN a ELSE b
Zeros(n)  == [i \in 1..n |-> 0]

NoOp == 0   \* the callback of generation 0, Box::new(|| ())

Handle(token, lease) == [alive |-> TRUE, token |-> token, lease |-> lease]
NoHandle == [alive |-> FALSE, token |-> 0, lease |-> NoOp]

RECURSIVE SumLen(_, _)
SumLen(s, k) == IF k = 0 THEN 0 ELSE s[k].len + SumLen(s, k - 1)

Count(s, x) == Cardinality({i \in DOMAIN s : s[i] = x})
Position(s, x) == CHOOSE i \in DOMAIN s : s[i] = x

\* the result record of an operation
Result(kind, token, cur, status, ret, addr, data) ==
    [kind |-> kind, token |-> token, cur |-> cur, status |-> status, ret |-> ret,
     addr |-> addr, data |-> data]

\* no mapping: refs counts the clones alive, flushes the flushes to the file
NoView == [mutable |-> FALSE, refs |-> 0, flushes |-> 0, mapped |-> FALSE,
           offset |-> 0, len |-> 0]

\* self.inner.lock() returns the guard: the Mutex is free and not poisoned
Locks(t) == mutex = 0 /\ ~poisoned

Idle(t) == pending[t] = <<>>
\* an operation is run by the lowest-numbered thread that is not inside drop
Runs(t) == Idle(t) /\ \A u \in Threads : u < t => ~Idle(u)
FreeSlot == CHOOSE h \in Handles : ~handles[h].alive /\
                \A k \in Handles : k < h => handles[k].alive

\* ------------------------------------------------------ IoWrapper and stream
try_borrow_mut_AnyLower(token) == IF token <= current_token THEN "Ok" ELSE "Locked"
try_borrow_mut(token) == IF token = current_token THEN "Ok" ELSE "Locked"

\* Seek::seek: the position it moves to (negative: the seek fails)
SeekEnd_Start(s) == 0
SeekEnd(s) == Len(s)
SeekStart(offset) == offset
SeekCurrent(p, d) == p + d

\* a file opened for appending: every write goes to the end
WriteAll_AtEnd(s, p, buf) == s \o buf
\* Write::write_all at position p of a growable stream: zero padding up to
\* p and the bytes of buf from p on.  For an empty buffer a File is not
\* written to at all (the loop of write_all never calls write); a
\* Cursor<Vec<u8>> has its own write_all, which pads the vector up to p
\* before it writes the zero bytes of buf.
WriteAll(s, p, buf) ==
    IF buf = <<>> /\ backend = "file" THEN s
    ELSE LET padded == IF Len(s) < p THEN s \o Zeros(p - Len(s)) ELSE s
             n      == Max(Len(padded), p + Len(buf))
         IN  [i \in 1..n |-> IF i > p /\ i <= p + Len(buf) THEN buf[i - p]
                             ELSE padded[i]]

\* Read::read at position p into a buffer with room for `room` bytes, the
\* backend handing out at most `chunk` bytes per call
ReadOnce(s, p, room, chunk) == Min(chunk, Min(room, Max(Len(s) - p, 0)))

\* one read only, whatever it returns
ReadLoop_OneRead(s, p, buf, ret, chunk) ==
    LET n == ReadOnce(s, p, Len(buf) - ret, chunk)
    IN  [ret |-> ret + n,
         buf |-> [i \in 1..Len(buf) |->
                    IF i > ret /\ i <= ret + n THEN s[p + (i - ret)] ELSE buf[i]]]
\* the loop of read_block: read into buf[ret..] until a read returns 0
RECURSIVE ReadLoop(_, _, _, _, _)
ReadLoop(s, p, buf, ret, chunk) ==
    LET n == ReadOnce(s, p, Len(buf) - ret, chunk)
    IN  IF n = 0 THEN [ret |-> ret, buf |-> buf]
        ELSE ReadLoop(s, p + n,
                      [i \in 1..Len(buf) |->
                          IF i > ret /\ i <= ret + n THEN s[p + (i - ret)] ELSE buf[i]],
                      ret + n, chunk)

ReadBlock(s, addr, buf, chunk) == ReadLoop(s, SeekStart(addr), buf, 0, chunk)

\* -------------------------------------------------------------------- Init
\* RandFile::new over an empty stream (for_read_write(Cursor::new(vec![])))
\* RandFile::new over an empty backend b
New(b) ==
    /\ backend = b
    /\ handles = [h \in Handles |-> IF h = 1 THEN Handle(0, NoOp) ELSE NoHandle]
    /\ current_token = 0
    /\ token_stack = <<[count |-> 1, cb |-> NoOp]>>
    /\ inner = <<>>
    /\ pending = [t \in Threads |-> <<>>]
    /\ invoked = <<>>
    /\ parent = [l \in Leases |-> NoOp]
    /\ nlocks = 0
    /\ blocks = <<>>
    /\ updates = 0
    /\ res = Result("new", 0, 0, "Ok", 0, 0, <<>>)
    /\ mutex = 0
    /\ poisoned = FALSE
    /\ views = [v \in Views |-> NoView]

\* RandFile::for_read_write(Cursor::new(vec![0; 0])), as the tests open it
Init == New("cursor")
\* either backend
InitAny == \E b \in Backends : New(b)
\* a File, which the mappings need
InitFile == New("file")

\* --------------------------------------------------------- block operations
append_block(t, h, buf) ==
    /\ Runs(t) /\ handles[h].alive /\ Locks(t)
    /\ LET token == handles[h].token
           ret   == SeekEnd(inner)
       IN  IF try_borrow_mut(token) = "Ok"
           THEN /\ inner' = WriteAll(inner, ret, buf)
                /\ blocks' = Append(blocks, [kind |-> "append", addr |-> ret,
                                             len |-> Len(buf), data |-> buf])
                /\ res' = Result("append_block", token, current_token, "Ok", ret, ret, buf)
           ELSE /\ res' = Result("append_block", token, current_token, "Locked", 0, 0, <<>>)
                /\ UNCHANGED <<inner, blocks>>
    /\ UNCHANGED <<handles, current_token, token_stack, pending, invoked, parent, nlocks,
                   updates,
                   mutex, poisoned, views, backend>>

update_block(t, h, offset, buf) ==
    /\ Runs(t) /\ handles[h].alive /\ Locks(t)
    /\ LET token == handles[h].token
       IN  IF try_borrow_mut(token) = "Ok"
           THEN /\ inner' = WriteAll(inner, SeekStart(offset), buf)
                /\ updates' = updates + 1
                /\ res' = Result("update_block", token, current_token, "Ok", 0, offset, buf)
           ELSE /\ res' = Result("update_block", token, current_token, "Locked", 0, 0, <<>>)
                /\ UNCHANGED <<inner, updates>>
    /\ UNCHANGED <<handles, current_token, token_stack, pending, invoked, parent, nlocks,
                   blocks,
                   mutex, poisoned, views, backend>>

\* reserve_block: seek(End(0)), seek(Current(size - 1)), write_all(b"\0").
\* The second seek fails when it would move before the start of the stream.
reserve_block(t, h, size) ==
    /\ Runs(t) /\ handles[h].alive /\ Locks(t)
    /\ LET token == handles[h].token
           ret   == SeekEnd(inner)
           p     == SeekCurrent(ret, size - 1)
       IN  IF try_borrow_mut(token) # "Ok"
           THEN /\ res' = Result("reserve_block", token, current_token, "Locked", 0, 0, <<>>)
                /\ UNCHANGED <<inner, blocks>>
           ELSE IF p < 0
           THEN /\ res' = Result("reserve_block", token, current_token, "SeekError", 0, size, <<>>)
                /\ UNCHANGED <<inner, blocks>>
           ELSE /\ inner' = WriteAll(inner, p, <<0>>)
                /\ blocks' = Append(blocks, [kind |-> "reserve", addr |-> ret,
                                             len |-> size, data |-> <<>>])
                /\ res' = Result("reserve_block", token, current_token, "Ok", ret, size, <<>>)
    /\ UNCHANGED <<handles, current_token, token_stack, pending, invoked, parent, nlocks,
                   updates,
                   mutex, poisoned, views, backend>>

size(t, h) ==
    /\ Runs(t) /\ handles[h].alive /\ Locks(t)
    /\ LET token == handles[h].token
       IN  IF try_borrow_mut(token) = "Ok"
           THEN res' = Result("size", token, current_token, "Ok", SeekEnd(inner), 0, <<>>)
           ELSE res' = Result("size", token, current_token, "Locked", 0, 0, <<>>)
    /\ UNCHANGED <<handles, current_token, token_stack, inner, pending, invoked,
                   parent, nlocks, blocks, updates,
                   mutex, poisoned, views, backend>>

read_block(t, h, addr, buf, chunk) ==
    /\ Runs(t) /\ handles[h].alive /\ Locks(t)
    /\ LET token == handles[h].token
           r     == ReadBlock(inner, addr, buf, chunk)
       IN  IF try_borrow_mut(token) = "Ok"
           THEN res' = Result("read_block", token, current_token, "Ok", r.ret, addr, r.buf)
           ELSE res' = Result("read_block", token, current_token, "Locked", 0, 0, <<>>)
    /\ UNCHANGED <<handles, current_token, token_stack, inner, pending, invoked,
                   parent, nlocks, blocks, updates,
                   mutex, poisoned, views, backend>>

\* ------------------------------------------------------ clone, lock and drop
\* the count of the cloned handle's generation, incremented
Retain_Current(stack, token) == [stack EXCEPT ![current_token + 1].count = @ + 1]
Retain(stack, token) == [stack EXCEPT ![token + 1].count = @ + 1]

clone(t, h) ==
    /\ Runs(t) /\ handles[h].alive /\ Locks(t)
    /\ LET token == handles[h].token
       IN  /\ token_stack' = Retain(token_stack, token)
           /\ handles' = [handles EXCEPT ![FreeSlot] = Handle(token, handles[h].lease)]
           /\ res' = Result("clone", token, current_token, "Ok", token, 0, <<>>)
    /\ UNCHANGED <<current_token, inner, pending, invoked, parent, nlocks, blocks, updates,
                   mutex, poisoned, views, backend>>

\* the token of the handle lock returns: current_token after its increment
LockToken_OnCaller(caller, cur) == caller + 1
LockToken(caller, cur) == cur + 1

lock(t, h) ==
    /\ Runs(t) /\ handles[h].alive /\ Locks(t)
    /\ LET update_fn == nlocks + 1
           token     == LockToken(handles[h].token, current_token)
       IN  /\ current_token' = current_token + 1
           /\ token_stack' = Append(token_stack, [count |-> 1, cb |-> update_fn])
           /\ handles' = [handles EXCEPT ![FreeSlot] = Handle(token, update_fn)]
           /\ parent' = [parent EXCEPT ![update_fn] = token_stack[Len(token_stack)].cb]
           /\ nlocks' = nlocks + 1
           /\ res' = Result("lock", handles[h].token, current_token, "Ok", token, 0, <<>>)
    /\ UNCHANGED <<inner, pending, invoked, blocks, updates,
                   mutex, poisoned, views, backend>>

\* the whole generation released by the drop of one of its handles
Release_Whole(stack, token) == [stack EXCEPT ![token + 1].count = 0]
\* the count of the dropped handle's generation, decremented unless it is 0
Release(stack, token) ==
    IF stack[token + 1].count > 0
    THEN [stack EXCEPT ![token + 1].count = @ - 1]
    ELSE stack

\* the callbacks collected outermost first
RECURSIVE Cascade_OuterFirst(_, _, _)
Cascade_OuterFirst(cur, stack, callbacks) ==
    IF cur > 0 /\ stack[cur + 1].count = 0
    THEN Cascade_OuterFirst(cur - 1, SubSeq(stack, 1, Len(stack) - 1),
                            <<stack[Len(stack)].cb>> \o callbacks)
    ELSE [current_token |-> cur, token_stack |-> stack, update_callbacks |-> callbacks]

\* the top generation popped whether or not handles of it are left
RECURSIVE Cascade_IgnoresCount(_, _, _)
Cascade_IgnoresCount(cur, stack, callbacks) ==
    IF cur > 0
    THEN Cascade_IgnoresCount(cur - 1, SubSeq(stack, 1, Len(stack) - 1),
                              Append(callbacks, stack[Len(stack)].cb))
    ELSE [current_token |-> cur, token_stack |-> stack, update_callbacks |-> callbacks]

\* current_token decremented, the entry left on the stack
RECURSIVE Cascade_NoPop(_, _, _)
Cascade_NoPop(cur, stack, callbacks) ==
    IF cur > 0 /\ stack[cur + 1].count = 0
    THEN Cascade_NoPop(cur - 1, stack, Append(callbacks, stack[cur + 1].cb))
    ELSE [current_token |-> cur, token_stack |-> stack, update_callbacks |-> callbacks]

\* the loop of drop: while current_token > 0 and its entry's count is 0,
\* decrement current_token and pop the last entry, collecting its callback
RECURSIVE Cascade(_, _, _)
Cascade(cur, stack, callbacks) ==
    IF cur > 0 /\ stack[cur + 1].count = 0
    THEN Cascade(cur - 1, SubSeq(stack, 1, Len(stack) - 1),
                 Append(callbacks, stack[Len(stack)].cb))
    ELSE [current_token |-> cur, token_stack |-> stack, update_callbacks |-> callbacks]

\* the guard kept over the callbacks
DropGuard_Held(t) == t
\* drop(inner): the guard released, the Mutex free again
DropGuard(t) == 0

\* drop up to drop(inner): the critical section; the callbacks run afterwards
drop(t, h) ==
    /\ Runs(t) /\ handles[h].alive /\ Locks(t)
    /\ LET token == handles[h].token
           c     == Cascade(current_token, Release(token_stack, token), <<>>)
       IN  /\ current_token' = c.current_token
           /\ token_stack' = c.token_stack
           /\ pending' = [pending EXCEPT ![t] = c.update_callbacks]
           /\ handles' = [handles EXCEPT ![h] = NoHandle]
           /\ mutex' = DropGuard(t)
           /\ res' = Result("drop", token, current_token, "Ok",
                            Len(c.update_callbacks), 0, <<>>)
    /\ UNCHANGED <<inner, invoked, parent, nlocks, blocks, updates,
                   poisoned, views, backend>>

\* update_callbacks.into_iter().for_each(|f| f()): one callback per step
invoke(t) ==
    /\ pending[t] # <<>>
    /\ invoked' = Append(invoked, Head(pending[t]))
    /\ pending' = [pending EXCEPT ![t] = Tail(pending[t])]
    /\ res' = Result("callback", 0, current_token, "Ok", Head(pending[t]), 0, <<>>)
    /\ UNCHANGED <<handles, current_token, token_stack, inner, parent, nlocks, blocks, updates,
                   mutex, poisoned, views, backend>>

\* a callback that writes a block through handle h (a structural update such
\* as a directory block) and returns: f() of the for_each, with
\* append_block called inside f
callback_append(t, h, buf) ==
    /\ pending[t] # <<>> /\ handles[h].alive /\ Locks(t)
    /\ LET token == handles[h].token
           ret   == SeekEnd(inner)
       IN  IF try_borrow_mut(token) = "Ok"
           THEN /\ inner' = WriteAll(inner, ret, buf)
                /\ blocks' = Append(blocks, [kind |-> "append", addr |-> ret,
                                             len |-> Len(buf), data |-> buf])
                /\ res' = Result("callback_append", token, current_token, "Ok",
                                 Head(pending[t]), ret, buf)
           ELSE /\ res' = Result("callback_append", token, current_token, "Locked",
                                 Head(pending[t]), 0, <<>>)
                /\ UNCHANGED <<inner, blocks>>
    /\ invoked' = Append(invoked, Head(pending[t]))
    /\ pending' = [pending EXCEPT ![t] = Tail(pending[t])]
    /\ UNCHANGED <<handles, current_token, token_stack, parent, nlocks, updates,
                   mutex, poisoned, views, backend>>

\* ---------------------------------------------------------------- mappings
FreeView == CHOOSE v \in Views : ~views[v].mapped /\
                \A k \in Views : k < v => views[k].mapped
\* Arc::new(mapped) / Arc::new(SyncGuard(mapped)): the first reference
View(mutable, offset, length) ==
    [mutable |-> mutable, refs |-> 1, flushes |-> 0, mapped |-> TRUE,
     offset |-> offset, len |-> length]

\* the file handed to the mapping call only to a handle of the current generation
deref_Checked(token) == try_borrow_mut(token)
\* Deref for IoWrapper, &*inner: the file, whatever the token of the caller
deref(token) == "Ok"

\* MappingHandle::new / MappingHandleMut::new; ok is the answer of the
\* operating system to the mapping call (MmapOptions::map / map_mut), recorded
\* in the result as 1 or 0
Map(t, h, kind, mutable, offset, length, ok) ==
    /\ backend = "file"
    /\ Runs(t) /\ handles[h].alive /\ Locks(t)
    /\ LET token  == handles[h].token
           status == IF deref(token) # "Ok" THEN deref(token)
                     ELSE IF ok THEN "Ok" ELSE "MapError"
       IN  /\ views' = IF status = "Ok"
                       THEN [views EXCEPT ![FreeView] = View(mutable, offset, length)]
                       ELSE views
           /\ res' = Result(kind, token, current_token, status,
                            IF ok THEN 1 ELSE 0, offset, Zeros(length))
    /\ UNCHANGED <<handles, current_token, token_stack, inner, pending, invoked, parent,
                   nlocks, blocks, updates, mutex, poisoned, backend>>

mmap(t, h, offset, length, ok) == Map(t, h, "mmap", FALSE, offset, length, ok)
mmap_mut(t, h, offset, length, ok) == Map(t, h, "mmap_mut", TRUE, offset, length, ok)

\* #[derive(Clone)] on MappingHandle / MappingHandleMut: one more reference
\* of the Arc
view_clone(v) ==
    /\ views[v].refs > 0
    /\ views' = [views EXCEPT ![v].refs = @ + 1]
    /\ res' = Result("view_clone", 0, current_token, "Ok", v, 0, <<>>)
    /\ UNCHANGED <<handles, current_token, token_stack, inner, pending, invoked, parent,
                   nlocks, blocks, updates, mutex, poisoned, backend>>

\* one byte written through MappingHandleMut::as_mut: the mapping is shared
\* with the file, so byte i of the view is byte offset + i of the stream; no
\* token is compared and no Mutex taken.  A byte of the mapping beyond the
\* end of the file is no byte of the stream.
view_write(v, i, byte) ==
    /\ views[v].refs > 0 /\ views[v].mutable
    /\ i < views[v].len
    /\ views[v].offset + i < Len(inner)
    /\ inner' = [inner EXCEPT ![views[v].offset + i + 1] = byte]
    /\ res' = Result("view_write", 0, current_token, "Ok", v, i, <<byte>>)
    /\ UNCHANGED <<handles, current_token, token_stack, pending, invoked, parent,
                   nlocks, blocks, updates, mutex, poisoned, views, backend>>

\* the mapping flushed at the drop of every clone
ArcDrop_FlushEach(view) ==
    [view EXCEPT !.refs = @ - 1,
                 !.flushes = IF view.mutable THEN @ + 1 ELSE @]
\* the drop of one reference of the Arc: the last one drops the value, and
\* the drop of a SyncGuard flushes
ArcDrop(view) ==
    [view EXCEPT !.refs = @ - 1,
                 !.flushes = IF view.mutable /\ view.refs = 1 THEN @ + 1 ELSE @]

\* the drop of one clone of a view
view_drop(v) ==
    /\ views[v].refs > 0
    /\ views' = [views EXCEPT ![v] = ArcDrop(views[v])]
    /\ res' = Result("view_drop", 0, current_token, "Ok", v, 0, <<>>)
    /\ UNCHANGED <<handles, current_token, token_stack, inner, pending, invoked, parent,
                   nlocks, blocks, updates, mutex, poisoned, backend>>

\* ------------------------------------------------------------------ faults
\* the operations that return the failed lock() as an error (map_err)
BlockKinds == {"size", "read_block", "append_block", "update_block", "reserve_block"}
Fallible == BlockKinds \cup {"lock", "mmap", "mmap_mut"}

\* the write_all of a block operation: where it writes and what.  size and
\* read_block write nothing; arg is the offset of update_block and the size
\* of reserve_block
WriteOf(kind, arg, buf) ==
    CASE kind = "append_block"  -> [p |-> SeekEnd(inner), buf |-> buf]
      [] kind = "update_block"  -> [p |-> SeekStart(arg), buf |-> buf]
      [] kind = "reserve_block" -> [p |-> SeekCurrent(SeekEnd(inner), arg - 1),
                                    buf |-> <<0>>]
      [] OTHER                  -> [p |-> 0, buf |-> <<>>]

\* the stream when the backend has taken the first `done` bytes of buf at
\* position p, one write call after the other, and no more
WritePart(s, p, buf, done) ==
    IF done = 0 THEN s ELSE WriteAll(s, p, SubSeq(buf, 1, done))

\* the backend panics inside a block operation that got past try_borrow_mut,
\* in a seek or read (done = 0) or in a write after `done` bytes of the
\* buffer went into the stream: the bytes written stay, the guard is dropped
\* by the unwinding and the Mutex is poisoned
backend_panics(t, h, kind, arg, buf, done) ==
    /\ Runs(t) /\ handles[h].alive /\ Locks(t)
    /\ try_borrow_mut(handles[h].token) = "Ok"
    /\ kind \in BlockKinds
    /\ LET w == WriteOf(kind, arg, buf)
       IN  /\ done \in 0..Len(w.buf)
           /\ done > 0 => w.p >= 0
           /\ inner' = WritePart(inner, w.p, w.buf, done)
    /\ poisoned' = TRUE
    /\ res' = Result(kind, handles[h].token, current_token, "Panic", 0, 0, <<>>)
    /\ UNCHANGED <<handles, current_token, token_stack, pending, invoked, parent,
                   nlocks, blocks, updates, mutex, views, backend>>

\* self.inner.lock().map_err(..)? on the poisoned Mutex: Err("Lock Error")
lock_error(t, h, kind) ==
    /\ Runs(t) /\ handles[h].alive /\ mutex = 0 /\ poisoned
    /\ res' = Result(kind, handles[h].token, current_token, "LockError", 0, 0, <<>>)
    /\ UNCHANGED <<handles, current_token, token_stack, inner, pending, invoked, parent,
                   nlocks, blocks, updates, mutex, poisoned, views, backend>>

\* clone: self.inner.lock().unwrap() on the poisoned Mutex panics
clone_panics(t, h) ==
    /\ Runs(t) /\ handles[h].alive /\ mutex = 0 /\ poisoned
    /\ res' = Result("clone", handles[h].token, current_token, "Panic", 0, 0, <<>>)
    /\ UNCHANGED <<handles, current_token, token_stack, inner, pending, invoked, parent,
                   nlocks, blocks, updates, mutex, poisoned, views, backend>>

\* drop: self.inner.lock().unwrap() on the poisoned Mutex panics before the
\* count is touched; the handle is gone all the same
drop_panics(t, h) ==
    /\ Runs(t) /\ handles[h].alive /\ mutex = 0 /\ poisoned
    /\ handles' = [handles EXCEPT ![h] = NoHandle]
    /\ res' = Result("drop", handles[h].token, current_token, "Panic", 0, 0, <<>>)
    /\ UNCHANGED <<current_token, token_stack, inner, pending, invoked, parent,
                   nlocks, blocks, updates, mutex, poisoned, views, backend>>

\* for_each(|f| f()) when f panics: f was called, the callbacks after it in
\* the vector are dropped by the unwinding without being called
invoke_panics(t) ==
    /\ pending[t] # <<>>
    /\ invoked' = Append(invoked, Head(pending[t]))
    /\ pending' = [pending EXCEPT ![t] = <<>>]
    /\ res' = Result("callback", 0, current_token, "Panic", Head(pending[t]), 0, <<>>)
    /\ UNCHANGED <<handles, current_token, token_stack, inner, parent, nlocks, blocks, updates,
                   mutex, poisoned, views, backend>>

\* ------------------------------------------------------------ specifications
\* the bounds of a run: a free handle slot, a lock call left, a successful
\* write left and a stream that stays within MaxStream
HasSlot     == \E k \in Handles : ~handles[k].alive
CanLock     == HasSlot /\ nlocks < MaxLocks
Room(limit, h) == Len(blocks) + updates < limit \/ try_borrow_mut(handles[h].token) # "Ok"
Fits        == Len(inner') <= MaxStream

\* The lease protocol does not look at the data: its specifications issue
\* every block operation with one fixed input.
Probe == <<1>>

BlockStep(t, h) ==
    \/ Room(LeaseWrites, h) /\ append_block(t, h, Probe) /\ Fits
    \/ Room(LeaseWrites, h) /\ update_block(t, h, 0, Probe) /\ Fits
    \/ Room(LeaseWrites, h) /\ reserve_block(t, h, 1) /\ Fits
    \/ size(t, h)
    \/ read_block(t, h, 0, <<0>>, 1)

Step(t) ==
    \/ \E h \in Handles : BlockStep(t, h)
    \/ \E h \in Handles : HasSlot /\ clone(t, h)
    \/ \E h \in Handles : CanLock /\ lock(t, h)
    \/ \E h \in Handles : drop(t, h)
    \/ invoke(t)

\* handles shared by several threads
Next == \E t \in Threads : Step(t)
Spec == Init /\ [][Next]_vars

\* one thread: every drop runs its callbacks before the next operation starts
NextSeq == Step(1)
SeqSpec == Init /\ [][NextSeq]_vars

\* one read-write handle and the stream behind it, with every input
\* the successful writes of a run
Written == Len(blocks) + updates
NextIo ==
    \/ \E buf \in Buffers : Written < MaxWrites /\ append_block(1, 1, buf) /\ Fits
    \/ \E offset \in Addrs, buf \in Buffers :
          Written < MaxWrites /\ update_block(1, 1, offset, buf) /\ Fits
    \/ \E n \in 0..MaxLen : Written < MaxWrites /\ reserve_block(1, 1, n) /\ Fits
    \/ size(1, 1)
    \/ \E addr \in Addrs, n \in 0..MaxLen, chunk \in {1, MaxLen} :
          read_block(1, 1, addr, [i \in 1..n |-> 1], chunk)
IoSpec == InitAny /\ [][NextIo]_vars

\* callbacks that call back into the shared state
NextCallback ==
    \/ \E t \in Threads : Step(t)
    \/ \E t \in Threads, h \in Handles :
          Room(LeaseWrites, h) /\ callback_append(t, h, Probe) /\ Fits
CallbackSpec == Init /\ [][NextCallback]_vars

\* leases and mappings of one file, one thread
HasView == \E v \in Views : ~views[v].mapped
NextMap ==
    \/ \E h \in Handles : BlockStep(1, h)
    \/ \E h \in Handles : CanLock /\ lock(1, h)
    \/ \E h \in Handles : drop(1, h)
    \/ invoke(1)
    \/ \E h \in Handles, ok \in BOOLEAN : HasView /\ mmap(1, h, 0, 1, ok)
    \/ \E h \in Handles, ok \in BOOLEAN : HasView /\ mmap_mut(1, h, 0, 1, ok)
    \/ \E v \in Views : views[v].refs < MaxViewRefs /\ view_clone(v)
    \/ \E v \in Views : view_drop(v)
    \/ \E v \in Views, byte \in Bytes : view_write(v, 0, byte)
MapSpec == InitFile /\ [][NextMap]_vars

\* one thread, with panics: of the backend under the guard, of lock().unwrap()
\* on the poisoned Mutex, and of a callback
NextFault ==
    \/ Step(1)
    \/ \E h \in Handles, kind \in BlockKinds, arg \in Addrs,
          buf \in [1..MaxLen -> Bytes], done \in 0..MaxLen :
          backend_panics(1, h, kind, arg, buf, done) /\ Fits
    \/ \E h \in Handles, kind \in Fallible : lock_error(1, h, kind)
    \/ \E h \in Handles : clone_panics(1, h)
    \/ \E h \in Handles : drop_panics(1, h)
    \/ invoke_panics(1)
FaultSpec == Init /\ [][NextFault]_vars

\* ------------------------------------------------------------------ claims
BlockOps == BlockKinds

OnStack(l)  == \E i \in DOMAIN token_stack : token_stack[i].cb = l
\* the generation of a lease on the stack
Gen(l)      == (CHOOSE i \in DOMAIN token_stack : token_stack[i].cb = l) - 1
Held(l)     == \E h \in Handles : handles[h].alive /\ handles[h].lease = l
Pending(l)  == \E t \in Threads : \E i \in DOMAIN pending[t] : pending[t][i] = l
Invoked(l)  == Count(invoked, l) > 0
Issued      == 1..nlocks

\* C1: a block operation gets past try_borrow_mut exactly when its handle's
\* token equals current_token and is answered "locked" otherwise, and the
\* stream changes only in a step of a block operation whose handle is of the
\* current generation; so handles of two generations never both operate.
C1_OnlyCurrentGeneration ==
    [][/\ res'.kind \in BlockOps =>
            (res'.status = "Locked" <=> res'.token # current_token)
       /\ inner' # inner =>
            res'.kind \in BlockOps /\ res'.token = current_token]_vars

\* a handle of generation 0 answered "locked" after a leased handle wrote
C1_Witness ==
    /\ res.kind \in BlockOps /\ res.status = "Locked" /\ res.token = 0
    /\ current_token > 0 /\ inner # <<>>
    /\ \E h \in Handles : handles[h].alive /\ handles[h].token = current_token

\* C2: while a handle of a lease is alive the lease stays on the stack, its
\* callback has not run, every generation below it is locked out and, when
\* it is the top, its own handles operate; once its handles are dropped (and
\* the drop has returned) with no lease above it, its callback has run exactly
\* once; and with no lease held at all generation 0 operates again.
C2_LeaseExcludesAncestors ==
    /\ \A l \in Issued :
          /\ Held(l) =>
                /\ OnStack(l) /\ ~Invoked(l) /\ ~Pending(l)
                /\ \A g \in 0..(Gen(l) - 1) : try_borrow_mut(g) = "Locked"
                /\ Gen(l) = Len(token_stack) - 1 => try_borrow_mut(Gen(l)) = "Ok"
          /\ (~Held(l) /\ ~Pending(l) /\
                (OnStack(l) => token_stack[Len(token_stack)].cb = l)) =>
                ~OnStack(l) /\ Count(invoked, l) = 1
          /\ Count(invoked, l) <= 1
    /\ (\A l \in Issued : ~Held(l)) => try_borrow_mut(0) = "Ok"

\* the lease taken, cloned, released: callback run once, generation 0 is back
C2_Witness ==
    /\ nlocks = 1 /\ invoked = <<1>> /\ res.kind = "callback"
    /\ handles[1].alive /\ try_borrow_mut(handles[1].token) = "Ok"
    /\ inner # <<>>

\* the callback of a lease runs before the callback of the lease it was
\* stacked on
InnermostFirst ==
    \A l \in Issued :
        (parent[l] # NoOp /\ Invoked(parent[l])) =>
            Invoked(l) /\ Position(invoked, l) < Position(invoked, parent[l])

\* C3: with one thread, leases nested to any depth and dropped in any order
\* have their callbacks run innermost first, and generation 0 is current
\* again only when no handle of any lease is left.
C3_NestedReleaseOrder ==
    /\ InnermostFirst
    /\ current_token = 0 => \A h \in Handles : handles[h].alive => handles[h].token = 0

\* the outer lease was released first: the drop of the inner one popped both
C3_Witness ==
    /\ Len(invoked) >= 2 /\ res.kind = "callback"
    /\ \E i \in DOMAIN invoked : i > 1 /\ parent[invoked[i - 1]] = invoked[i]
    /\ current_token = 0

\* C4: the same with handles dropped by several threads: callbacks run
\* innermost first, and a callback runs only once its generation is popped
\* with no handle of it left.
C4_ConcurrentReleaseOrder ==
    /\ InnermostFirst
    /\ \A l \in Issued : (Invoked(l) \/ Pending(l)) => ~Held(l) /\ ~OnStack(l)

\* what read_block hands back for a buffer of n bytes at addr
ReadBack(addr, n) == ReadBlock(inner, addr, [i \in 1..n |-> 1], 1)

OnlyAppends == updates = 0 /\ \A k \in DOMAIN blocks : blocks[k].kind = "append"

\* C5: on a stream that started empty and was only appended to (or had
\* blocks reserved), every block starts at the sum of the lengths of the
\* blocks before it; and when it was only appended to, read_block at that
\* address with a buffer of the block's length returns the block's bytes.
C5_AppendAddresses ==
    /\ updates = 0 =>
          \A k \in DOMAIN blocks : blocks[k].addr = SumLen(blocks, k - 1)
    /\ OnlyAppends =>
          \A k \in DOMAIN blocks :
              ReadBack(blocks[k].addr, blocks[k].len) =
                  [ret |-> blocks[k].len, buf |-> blocks[k].data]

\* two different non-empty blocks appended, the second not at address 0
C5_Witness ==
    /\ OnlyAppends /\ Len(blocks) = 2 /\ res.kind = "append_block"
    /\ blocks[1].len > 0 /\ blocks[2].len > 0 /\ blocks[1].data # blocks[2].data
    /\ res.ret = blocks[1].len

\* C6: read_block at an address within the stream returns
\* min(L, N - address), the leading bytes of the buffer are the stream's
\* bytes from that address on, and a short stream is no error.
C6_ReadReturnsAvailable ==
    (res.kind = "read_block" /\ res.token = current_token /\ res.addr <= Len(inner)) =>
        /\ res.status = "Ok"
        /\ res.ret = Min(Len(res.data), Len(inner) - res.addr)
        /\ \A i \in 1..res.ret : res.data[i] = inner[res.addr + i]

\* a read that filled part of its buffer, with a zero byte among what it read
C6_Witness ==
    /\ res.kind = "read_block" /\ res.status = "Ok"
    /\ 0 < res.ret /\ res.ret < Len(res.data) /\ res.addr > 0
    /\ res.data[1] = 0

\* the block reserved at the address and with the length of the last update
Reserved(addr, n) ==
    \E k \in DOMAIN blocks :
        blocks[k].kind = "reserve" /\ blocks[k].addr = addr /\ blocks[k].len = n

\* C7: after update_block(a, data) on a block that reserve_block(n) returned
\* at a, with len(data) = n, read_block(a, buffer of n) returns n and data,
\* whatever was appended in between.
C7_ReserveUpdateRoundTrip ==
    (res.kind = "update_block" /\ res.status = "Ok" /\
     Reserved(res.addr, Len(res.data))) =>
        ReadBack(res.addr, Len(res.data)) =
            [ret |-> Len(res.data), buf |-> res.data]

\* reserve, then append, then the update of the reserved block
C7_Witness ==
    /\ res.kind = "update_block" /\ res.status = "Ok" /\ Len(res.data) > 0
    /\ \E k \in DOMAIN blocks :
          /\ blocks[k].kind = "reserve" /\ blocks[k].addr = res.addr
          /\ blocks[k].len = Len(res.data)
          /\ \E j \in DOMAIN blocks : j > k /\ blocks[j].kind = "append" /\ blocks[j].len > 0
    /\ \E i \in DOMAIN res.data : res.data[i] # 0

\* C8: between operations the stack is not empty and its length minus one
\* is current_token.
C8_StackMatchesCurrent ==
    /\ token_stack # <<>>
    /\ Len(token_stack) - 1 = current_token

\* a drop that popped one of two nested leases
C8_Witness ==
    res.kind = "drop" /\ res.ret = 1 /\ res.cur = 2 /\ current_token = 1

\* the entries left on the stack by a step whose count changed
Changed == {i \in DOMAIN token_stack \cap DOMAIN token_stack' :
               token_stack'[i].count # token_stack[i].count}
CountsNonNegative == \A i \in DOMAIN token_stack : token_stack[i].count >= 0

\* C9 as claimed: counts are never negative, and clone and drop change the
\* count of no entry other than the one at current_token.
C9_OnlyCurrentEntryMutated ==
    /\ []CountsNonNegative
    /\ [][res'.kind \in {"clone", "drop"} =>
            \A i \in Changed : i - 1 = current_token]_vars

\* C9 amended: counts are never negative, and clone and drop change the
\* count of no entry other than the one at the handle's own token.
C9_OnlyOwnEntryMutated ==
    /\ []CountsNonNegative
    /\ [][res'.kind \in {"clone", "drop"} =>
            \A i \in Changed : i - 1 = res'.token]_vars

\* a handle of a generation that is not current was cloned
C9_Witness ==
    /\ res.kind = "clone" /\ res.token # res.cur
    /\ token_stack[res.token + 1].count = 2

\* C10: lock, on a handle of any generation, pushes one entry with count 1
\* and the given callback, sets current_token to the former current_token
\* plus one and returns a handle of that new top generation.
C10_LockStacksOnCurrent ==
    [][res'.kind = "lock" =>
          /\ res'.status = "Ok"
          /\ token_stack' = Append(token_stack, [count |-> 1, cb |-> nlocks + 1])
          /\ current_token' = current_token + 1
          /\ res'.ret = current_token + 1
          /\ \E h \in Handles :
                /\ ~handles[h].alive /\ handles'[h].alive
                /\ handles'[h].token = current_token + 1
                /\ \A k \in Handles \ {h} : handles'[k] = handles[k]]_vars

\* lock called on a handle of generation 0 while generation 1 is current
C10_Witness ==
    res.kind = "lock" /\ res.token = 0 /\ res.cur = 1 /\ res.ret = 2 /\ current_token = 2

\* C14: a block operation through a handle whose generation is not current
\* is answered "locked" in its one step, and the stream, current_token and
\* the stack are as before it.
C14_StaleOperationChangesNothing ==
    [][(res'.kind \in BlockOps /\ res'.token # current_token) =>
          /\ res'.status = "Locked"
          /\ inner' = inner
          /\ current_token' = current_token
          /\ token_stack' = token_stack]_vars

\* a write refused to a handle of generation 0, under two nested leases,
\* with bytes in the stream
C14_Witness ==
    /\ res.kind \in {"append_block", "update_block", "reserve_block"}
    /\ res.status = "Locked" /\ res.token = 0 /\ res.cur = 2
    /\ inner # <<>>

\* C16: while a handle of a generation g > 0 is alive (it is never dropped),
\* the entry of generation g stays on the stack with its callback not run,
\* current_token stays at g or above, and every generation below g is
\* locked out.
C16_LeakedHandlePinsGeneration ==
    \A h \in Handles :
        (handles[h].alive /\ handles[h].token > 0) =>
            /\ handles[h].token <= current_token
            /\ handles[h].token + 1 \in DOMAIN token_stack
            /\ token_stack[handles[h].token + 1].cb = handles[h].lease
            /\ ~Invoked(handles[h].lease) /\ ~Pending(handles[h].lease)
            /\ \A g \in 0..(handles[h].token - 1) : try_borrow_mut(g) = "Locked"

\* the only handle left is one of generation 1, after a lease above it was
\* released and every other handle dropped
C16_Witness ==
    /\ \E h \in Handles : handles[h].alive /\ handles[h].token = 1
    /\ \A h \in Handles : handles[h].alive => handles[h].token = 1
    /\ token_stack[1].count = 0 /\ current_token = 1
    /\ invoked = <<2>>

\* the live handles of a generation
LiveOf(g) == {h \in Handles : handles[h].alive /\ handles[h].token = g}

\* C19: the count of every stack entry is the number of live handles of its
\* generation, and the token of every live handle is at most current_token
\* (an index into the stack); so the count that drop decrements is above 0.
C19_CountsAreLiveHandles ==
    /\ \A i \in DOMAIN token_stack :
          token_stack[i].count = Cardinality(LiveOf(i - 1))
    /\ \A h \in Handles :
          handles[h].alive =>
              /\ handles[h].token <= current_token
              /\ handles[h].token + 1 \in DOMAIN token_stack
              /\ token_stack[handles[h].token + 1].count > 0

\* two handles of generation 1, one of generation 0, after a lease above
\* generation 1 was taken and released
C19_Witness ==
    /\ Cardinality(LiveOf(1)) = 2 /\ Cardinality(LiveOf(0)) = 1
    /\ current_token = 1 /\ nlocks = 2 /\ invoked = <<2>>

RECURSIVE SpecCascade(_, _, _)
\* the cascade as specified: while current_generation > 0 and the top
\* entry's count is 0, pop it, decrement current_generation, collect its
\* callback
SpecCascade(cur, stack, callbacks) ==
    IF cur > 0 /\ stack[Len(stack)].count = 0
    THEN SpecCascade(cur - 1, SubSeq(stack, 1, Len(stack) - 1),
                     Append(callbacks, stack[Len(stack)].cb))
    ELSE [current_token |-> cur, token_stack |-> stack, update_callbacks |-> callbacks]

\* release as specified: the count decremented; when it is not 0 nothing
\* more, else the cascade
SpecRelease(cur, stack, token) ==
    LET released == [stack EXCEPT ![token + 1].count = @ - 1]
    IN  IF released[token + 1].count # 0
        THEN [current_token |-> cur, token_stack |-> released, update_callbacks |-> <<>>]
        ELSE SpecCascade(cur, released, <<>>)

\* C20: between operations current_token is 0 or the top entry's count is
\* above 0, and every drop does what the specified release does: one that
\* leaves its generation's count above 0 pops nothing and collects no
\* callback.
C20_DropRefinesRelease ==
    /\ [](current_token = 0 \/ token_stack[Len(token_stack)].count > 0)
    /\ [][res'.kind = "drop" =>
            LET r == SpecRelease(current_token, token_stack, res'.token)
            IN  /\ current_token' = r.current_token
                /\ token_stack' = r.token_stack
                /\ \E t \in Threads : pending'[t] = r.update_callbacks
                /\ res'.ret = Len(r.update_callbacks)]_vars

\* a handle of generation 0 dropped with another one left, while a lease is
\* current: nothing popped
C20_Witness ==
    /\ res.kind = "drop" /\ res.token = 0 /\ res.cur = 1 /\ res.ret = 0
    /\ token_stack[1].count = 1 /\ current_token = 1

\* C17: a successful reserve_block(size), for every size >= 0 and every
\* stream, returns the previous length, makes the length the previous length
\* plus size, and leaves every byte that was in the stream as it was.
C17_ReservePreservesStream ==
    [][(res'.kind = "reserve_block" /\ res'.status = "Ok") =>
          /\ res'.ret = Len(inner)
          /\ Len(inner') = Len(inner) + res'.addr
          /\ SubSeq(inner', 1, Len(inner)) = inner]_vars

\* the operations of a handle that take the Mutex
HandleOps == Fallible \cup {"clone", "drop"}

\* C11: once the Mutex is poisoned, every operation of a handle (block
\* operations, lock, mapping creation, clone and drop) returns the failure
\* to its caller as an error value.
C11_PoisonedMutexReturnsError ==
    [][(poisoned /\ res'.kind \in HandleOps) => res'.status = "LockError"]_vars

\* C18: every generation popped by a cascade whose drop has finished has had
\* its callback invoked exactly once, also when a callback collected before
\* it in the same cascade panics.
C18_PoppedCallbackInvokedOnce ==
    \A l \in Issued : (~OnStack(l) /\ ~Pending(l)) => Count(invoked, l) = 1

\* C15: while callbacks collected by a drop wait to be invoked the Mutex is
\* free, so an operation started by a callback acquires it; and a block
\* operation a callback performs through a handle of the current generation
\* succeeds.
C15_CallbacksRunUnlocked ==
    /\ [](\A t \in Threads : pending[t] # <<>> => mutex = 0)
    /\ [][(res'.kind = "callback_append" /\ res'.token = current_token) =>
             /\ res'.status = "Ok"
             /\ inner' = inner \o res'.data /\ res'.data # <<>>]_vars

\* the callback of lease 1 has appended a block through a handle of
\* generation 0, which the cascade made current again
C15_Witness ==
    /\ res.kind = "callback_append" /\ res.status = "Ok"
    /\ res.ret = 1 /\ res.token = 0 /\ res.cur = 0
    /\ inner # <<>> /\ invoked # <<>>

Maps == {"mmap", "mmap_mut"}
ViewAlive == \E v \in Views : views[v].refs > 0

\* C12: mmap and mmap_mut leave current_token and the stack as they are and
\* succeed exactly when the operating system grants the mapping, whatever
\* the generation of the calling handle; and while a view is alive the Mutex
\* is free, lock succeeds and a block operation through a handle of the
\* current generation is not refused.
C12_MappingIgnoresLeases ==
    /\ [][res'.kind \in Maps =>
            /\ current_token' = current_token /\ token_stack' = token_stack
            /\ res'.status = (IF res'.ret = 1 THEN "Ok" ELSE "MapError")]_vars
    /\ [](ViewAlive => mutex = 0)
    /\ [][(ViewAlive /\ ViewAlive') =>
            /\ res'.kind = "lock" => res'.status = "Ok"
            /\ (res'.kind \in BlockOps /\ res'.token = current_token) =>
                   res'.status = "Ok"]_vars

\* a mapping created through a handle of generation 0 while a lease is
\* current
C12_Witness ==
    /\ res.kind \in Maps /\ res.status = "Ok" /\ res.token = 0 /\ res.cur = 1
    /\ ViewAlive

\* C13: a mutable mapping has not been flushed while one of its clones is
\* alive, and has been flushed exactly once when none is left.
C13_FlushedOnceAtLastDrop ==
    \A v \in Views :
        (views[v].mapped /\ views[v].mutable) =>
            /\ views[v].refs > 0 => views[v].flushes = 0
            /\ views[v].refs = 0 => views[v].flushes = 1

\* a mutable mapping that was cloned, with every clone dropped
C13_Witness ==
    /\ res.kind = "view_drop"
    /\ \E v \in Views : /\ views[v].mapped /\ views[v].mutable
                        /\ views[v].refs = 0 /\ views[v].flushes = 1
                        /\ res.ret = v

====
